---- MODULE Spec2Model ----
(***************************************************************************)
(* Model of smaract/controller.py: the SmaractBaseController constructor,  *)
(* the send_cmd dispatcher and the controller-level commands of the base   *)
(* and MCS controllers.                                                    *)
(*                                                                         *)
(* Strings are sequences of one-character strings.  An optional Python     *)
(* value (an attribute that may be unset, a return value that may be       *)
(* missing because the call raised) is a sequence of length 0 or 1.        *)
(***************************************************************************)
EXTENDS Integers, Sequences, FiniteSets, TLC

VARIABLES axes, ctrls, com, passed, result, line

vars == <<axes, ctrls, com, passed, result, line>>

----------------------------------------------------------------------------
(* Bounds of the model.                                                    *)

\* longest sequence handed to a constructor
MaxAxesLen == 2
\* number of controllers constructed in one behaviour
MaxCtrl == 2
\* number of requests the transport serves in one behaviour
MaxCalls == 2
\* longest reply enumerated character by character
MaxReplyLen == 5
\* replies "E0,<c>" are enumerated for every c in 0..MaxCode
MaxCode == 160
\* trigger indices tried lie in -IdxMargin .. TRIGGER_MAX + IdxMargin
IdxMargin == 2
\* largest mode / delay argument tried
MaxArg == 2

----------------------------------------------------------------------------
(* Characters, decimal formatting ('%d') and parsing (int, float).         *)

DigitChars == <<"0", "1", "2", "3", "4", "5", "6", "7", "8", "9">>

Digits == {DigitChars[i] : i \in 1..10}

DigitVal(c) == CHOOSE d \in 0..9 : DigitChars[d + 1] = c

RECURSIVE DecNat(_)
DecNat(n) ==
    IF n < 10 THEN <<DigitChars[n + 1]>>
    ELSE Append(DecNat(n \div 10), DigitChars[(n % 10) + 1])

\* '%d' % n
Dec(n) == IF n < 0 THEN <<"-">> \o DecNat(0 - n) ELSE DecNat(n)

\* s[i:] for a 0-based Python index i >= 0
From(s, i) == IF i >= Len(s) THEN <<>> ELSE SubSeq(s, i + 1, Len(s))

AllDigits(s) == Len(s) >= 1 /\ \A i \in 1..Len(s) : s[i] \in Digits

Unsigned(s) == IF Len(s) >= 1 /\ s[1] \in {"-", "+"} THEN Tail(s) ELSE s

RECURSIVE NatVal(_)
NatVal(s) ==
    IF Len(s) = 0 THEN 0
    ELSE 10 * NatVal(SubSeq(s, 1, Len(s) - 1)) + DigitVal(s[Len(s)])

\* int(s) succeeds: an optional sign and at least one decimal digit.  (The
\* characters of the replies modelled here include no blank and no '_'.)
IsInt(s) == AllDigits(Unsigned(s))

\* int(s), where IsInt(s)
IntVal(s) ==
    IF s[1] = "-" THEN 0 - NatVal(Unsigned(s)) ELSE NatVal(Unsigned(s))

\* 1-based position of the first "e"/"E" of s, 0 when there is none
ExpPos(s) ==
    IF \E i \in 1..Len(s) : s[i] \in {"e", "E"}
    THEN CHOOSE i \in 1..Len(s) :
            s[i] \in {"e", "E"} /\ \A j \in 1..(i - 1) : s[j] \notin {"e", "E"}
    ELSE 0

\* float(s) succeeds: [sign] digits [(e|E) [sign] digits].  (The characters
\* of the replies modelled here include no '.', no blank and no letter of
\* "inf" or "nan".)
IsFloat(s) ==
    LET e == ExpPos(s) IN
    IF e = 0 THEN IsInt(s)
    ELSE IsInt(SubSeq(s, 1, e - 1)) /\ IsInt(From(s, e))

\* float(s), where IsFloat(s), as <<mantissa, decimal exponent>>
FloatVal(s) ==
    LET e == ExpPos(s) IN
    IF e = 0 THEN <<IntVal(s), 0>>
    ELSE <<IntVal(SubSeq(s, 1, e - 1)), IntVal(From(s, e))>>

\* 1-based positions of the commas of s
Commas(s) == {i \in 1..Len(s) : s[i] = ","}

Max(S) == CHOOSE x \in S : \A y \in S : y <= x

Min(S) == CHOOSE x \in S : \A y \in S : x <= y

\* s.rsplit(',', 1)
RSplit1(s) ==
    IF Commas(s) = {} THEN <<s>>
    ELSE LET k == Max(Commas(s)) IN <<SubSeq(s, 1, k - 1), From(s, k)>>

\* the first two fields of s.split(',')
Split2(s) ==
    IF Commas(s) = {} THEN <<s>>
    ELSE LET k    == Min(Commas(s))
             rest == From(s, k)
             stop == IF Commas(rest) = {} THEN Len(rest) ELSE Min(Commas(rest)) - 1
         IN  <<SubSeq(s, 1, k - 1), SubSeq(rest, 1, stop)>>

\* '.'.join(s.split(','))
CommasToDots(s) == [i \in 1..Len(s) |-> IF s[i] = "," THEN "." ELSE s[i]]

----------------------------------------------------------------------------
(* Protocol table.                                                         *)

ERROR_CODES ==
    (0 :> "No Error") @@ (1 :> "Syntax Error") @@
    (2 :> "Invalid Command Error") @@ (3 :> "Overflow Error") @@
    (4 :> "Parse Error") @@ (5 :> "Too Few Parameters Error") @@
    (6 :> "Too Many Parameters Error") @@ (7 :> "Invalid Parameter Error") @@
    (8 :> "Wrong Mode Error") @@ (129 :> "No Sensor Present Error") @@
    (140 :> "Sensor Disabled Error") @@ (141 :> "Command Overridden Error") @@
    (142 :> "End Stop Reached Error") @@ (143 :> "Wrong Sensor Type Error") @@
    (144 :> "Could Not Find Reference Mark Error") @@
    (145 :> "Wrong End Effector Type Error") @@
    (146 :> "Movement Locked Error") @@ (147 :> "Range Limit Reached Error") @@
    (148 :> "Physical Position Unknown Error") @@
    (150 :> "Command Not Processable Error") @@
    (151 :> "Waiting For Trigger Error") @@
    (152 :> "Command Not Triggerable Error") @@
    (153 :> "Command Queue Full Error") @@ (154 :> "Invalid Component Error") @@
    (155 :> "Invalid Sub Component Error") @@ (156 :> "Invalid Property Error") @@
    (157 :> "Permission Denied Error") @@
    (159 :> "Power Amplifier Disabled Error")

----------------------------------------------------------------------------
(* Parameter validation and the trigger code offset (smaract/constants.py). *)

TRIGGER_INDEX_0 == 1792

TRIGGER_MAX == 255

BAUDRATES == {9600, 19200, 38400, 57600, 115200}

\* TRUE: returns normally; FALSE: raises the validation error
is_trigger_in_range(trigger) == trigger \in 0..TRIGGER_MAX

is_baudrate_in_range(baudrate) == baudrate \in BAUDRATES

----------------------------------------------------------------------------
(* Values.                                                                 *)

None == <<>>

Some(v) == <<v>>

NoMsg == [num |-> <<>>, text |-> ""]

\* the SmaractBaseAxis instances the caller has created, in the order in
\* which a controller for the whole device takes them
AllAxes == <<1, 2>>

Axes == {AllAxes[i] : i \in 1..Len(AllAxes)}

\* the objects the caller may hand to a constructor; 0 is an object that is
\* no SmaractBaseAxis
Pool == {0} \cup Axes

\* isinstance(x, SmaractBaseAxis)
IsAxis(x) == x \in Axes

Kinds == {"Base", "SDC", "MCS"}

\* isinstance(self, SmaractMCSController)
IsMCS(c) == ctrls[c].kind = "MCS"

Live == {c \in 1..Len(ctrls) : ctrls[c].alive}

\* a._parent(): the weak reference is dead once its controller is destroyed
Parent(a) ==
    IF axes[a].parent = None THEN None
    ELSE IF ctrls[axes[a].parent[1]].alive THEN axes[a].parent ELSE None

----------------------------------------------------------------------------
(* The replies of the device.                                              *)

Alphabet == {"E", "S", ",", "-", "0", "1", "2", "4"}

\* every string over Alphabet of length at most n
Strings(n) == UNION {[1..k -> Alphabet] : k \in 0..n}

ErrorFrame(c) == <<"E", "0", ",">> \o Dec(c)

SampleReplies ==
    { <<"V", "V", "1", ",", "2", ",", "3">>,
      <<"N", "5">>,
      <<"N", "x">>,
      <<"R", ",", "1", "E", "2">>,
      <<"B", "R", "9", "6", "0", "0">>,
      <<"E", "S", "x", "y", "z">>,
      ErrorFrame(0),
      ErrorFrame(142),
      ErrorFrame(99) }

ReplySet == Strings(MaxReplyLen) \cup {ErrorFrame(c) : c \in 0..MaxCode} \cup SampleReplies

----------------------------------------------------------------------------
(* SmaractBaseController.send_cmd                                          *)

Returns(v) == [exc |-> "none", key |-> None, msg |-> NoMsg, ret |-> Some(v)]

Raises(e, k, m) == [exc |-> e, key |-> k, msg |-> m, ret |-> None]

\* DecodeReply with the error flag reduced to "starts with the marker"
DecodeReplyMarkerOnly(ans) ==
    IF Len(ans) = 0 THEN Raises("IndexError", None, NoMsg)
    ELSE IF ans[1] # "E" THEN Returns(ans)
    ELSE LET parts == RSplit1(ans) IN
         IF Len(parts) < 2 THEN Raises("IndexError", None, NoMsg)
         ELSE IF ~IsInt(parts[2]) THEN Raises("ValueError", None, NoMsg)
         ELSE LET error_code == IntVal(parts[2]) IN
              IF error_code = 0 THEN Returns(ans)
              ELSE IF error_code \notin DOMAIN ERROR_CODES
                   THEN Raises("KeyError", Some(error_code), NoMsg)
                   ELSE Raises("RuntimeError", None,
                               [num |-> Dec(error_code), text |-> ERROR_CODES[error_code]])

\* DecodeReply reading the code from the second field, ans.split(',')[1]
DecodeReplySecondField(ans) ==
    IF Len(ans) = 0 THEN Raises("IndexError", None, NoMsg)
    ELSE IF ans[1] # "E" THEN Returns(ans)
    ELSE IF Len(ans) < 2 THEN Raises("IndexError", None, NoMsg)
    ELSE IF ans[2] = "S" THEN Returns(ans)
    ELSE LET parts == Split2(ans) IN
         IF Len(parts) < 2 THEN Raises("IndexError", None, NoMsg)
         ELSE IF ~IsInt(parts[2]) THEN Raises("ValueError", None, NoMsg)
         ELSE LET error_code == IntVal(parts[2]) IN
              IF error_code = 0 THEN Returns(ans)
              ELSE IF error_code \notin DOMAIN ERROR_CODES
                   THEN Raises("KeyError", Some(error_code), NoMsg)
                   ELSE Raises("RuntimeError", None,
                               [num |-> Dec(error_code), text |-> ERROR_CODES[error_code]])

\* DecodeReply with ERROR_CODES.get(error_code, 'Unknown Error')
DecodeReplyDefaultText(ans) ==
    IF Len(ans) = 0 THEN Raises("IndexError", None, NoMsg)
    ELSE IF ans[1] # "E" THEN Returns(ans)
    ELSE IF Len(ans) < 2 THEN Raises("IndexError", None, NoMsg)
    ELSE IF ans[2] = "S" THEN Returns(ans)
    ELSE LET parts == RSplit1(ans) IN
         IF Len(parts) < 2 THEN Raises("IndexError", None, NoMsg)
         ELSE IF ~IsInt(parts[2]) THEN Raises("ValueError", None, NoMsg)
         ELSE LET error_code == IntVal(parts[2]) IN
              IF error_code = 0 THEN Returns(ans)
              ELSE Raises("RuntimeError", None,
                          [num  |-> Dec(error_code),
                           text |-> IF error_code \in DOMAIN ERROR_CODES
                                    THEN ERROR_CODES[error_code] ELSE "Unknown Error"])

\* What send_cmd does with the transport's answer ans: the exception it
\* raises ("none": it returns), the key of a KeyError, the text of a
\* RuntimeError ('Error %d: %s') and the value returned.
DecodeReply(ans) ==
    IF Len(ans) = 0 THEN Raises("IndexError", None, NoMsg)
    ELSE IF ans[1] # "E" THEN Returns(ans)
    ELSE IF Len(ans) < 2 THEN Raises("IndexError", None, NoMsg)
    ELSE IF ans[2] = "S" THEN Returns(ans)
    ELSE LET parts == RSplit1(ans) IN
         IF Len(parts) < 2 THEN Raises("IndexError", None, NoMsg)
         ELSE IF ~IsInt(parts[2]) THEN Raises("ValueError", None, NoMsg)
         ELSE LET error_code == IntVal(parts[2]) IN
              IF error_code = 0 THEN Returns(ans)
              ELSE IF error_code \notin DOMAIN ERROR_CODES
                   THEN Raises("KeyError", Some(error_code), NoMsg)
                   ELSE Raises("RuntimeError", None,
                               [num |-> Dec(error_code), text |-> ERROR_CODES[error_code]])

\* send_cmd repeating the request once when the answer decodes to an error
send_cmd_retry(cmd, ans) ==
    [requests |-> IF DecodeReply(ans).exc = "none" THEN <<cmd>> ELSE <<cmd, cmd>>,
     out      |-> DecodeReply(ans)]

\* send_cmd(cmd) when the transport answers ans: the requests it makes to
\* the transport, in order, and the outcome
send_cmd(cmd, ans) == [requests |-> <<cmd>>, out |-> DecodeReply(ans)]

----------------------------------------------------------------------------
(* SmaractBaseController.__init__                                          *)

Fresh == [a \in Pool |-> [id |-> None, parent |-> None]]

\* for i, a in enumerate(axes): a._id = i; a._parent = ref(self); append(a)
RECURSIVE AssignLoop(_, _, _, _, _)
AssignLoop(ax, lst, input, i, self) ==
    IF i > Len(input) THEN [axes |-> ax, list |-> lst]
    ELSE AssignLoop([ax EXCEPT ![input[i]] = [id |-> Some(i - 1), parent |-> Some(self)]],
                    Append(lst, input[i]), input, i + 1, self)

\* the loop of a constructor that checks each element as it reaches it
RECURSIVE CheckingLoop(_, _, _, _, _)
CheckingLoop(ax, lst, input, i, self) ==
    IF i > Len(input) THEN [exc |-> "none", axes |-> ax, list |-> lst]
    ELSE IF ~IsAxis(input[i]) THEN [exc |-> "ValueError", axes |-> ax, list |-> lst]
    ELSE CheckingLoop([ax EXCEPT ![input[i]] = [id |-> Some(i - 1), parent |-> Some(self)]],
                      Append(lst, input[i]), input, i + 1, self)

\* BaseInit validating inside the loop instead of before it
BaseInitEager(ax, input, self) == CheckingLoop(ax, <<>>, input, 1, self)

\* __init__(self, axes) run on the attribute values ax: the exception raised,
\* the attribute values it leaves and the list self holds when it ends
BaseInit(ax, input, self) ==
    IF \E i \in 1..Len(input) : ~IsAxis(input[i])
    THEN [exc |-> "ValueError", axes |-> ax, list |-> <<>>]
    ELSE LET r == AssignLoop(ax, <<>>, input, 1, self)
         IN  [exc |-> "none", axes |-> r.axes, list |-> r.list]

Inputs == UNION {[1..k -> Pool] : k \in 0..MaxAxesLen}

Outcome(op, c, args, valid, cmd, requests, reply, list, o) ==
    [op |-> op, ctrl |-> c, args |-> args, valid |-> valid, cmd |-> cmd,
     requests |-> requests, reply |-> reply, list |-> list,
     exc |-> o.exc, key |-> o.key, msg |-> o.msg, ret |-> o.ret]

Construct(kind, input) ==
    /\ Len(ctrls) < MaxCtrl
    /\ LET self == Len(ctrls) + 1
           r    == BaseInit(axes, input, self)
       IN  /\ axes' = r.axes
           /\ ctrls' = IF r.exc = "none"
                       THEN Append(ctrls, [kind |-> kind, alive |-> TRUE, list |-> r.list])
                       ELSE ctrls
           /\ result' = Outcome("__init__", IF r.exc = "none" THEN self ELSE 0, input,
                                TRUE, None, <<>>, None, r.list,
                                IF r.exc = "none" THEN Returns("self")
                                ELSE Raises(r.exc, None, NoMsg))
    /\ UNCHANGED <<com, passed, line>>

\* SmaractBaseController(input)
BaseController == \E input \in Inputs : Construct("Base", input)

\* the last strong reference to a controller is dropped: the controller and
\* its list are gone, the axes the caller still holds keep their attributes
Destroy ==
    \E c \in Live :
        /\ ctrls' = [ctrls EXCEPT ![c] = [@ EXCEPT !.alive = FALSE, !.list = <<>>]]
        /\ result' = Outcome("__del__", c, <<>>, TRUE, None, <<>>, None, <<>>,
                             Returns("None"))
        /\ UNCHANGED <<axes, com, passed, line>>

----------------------------------------------------------------------------
(* The controller-level commands.                                          *)

\* A command method once its parameters are accepted: it formats cmd, calls
\* send_cmd once and, when send_cmd returns, converts the answer (parsed is
\* that conversion applied to the transport's answer).
Command(c, op, args, cmd, parsed) ==
    /\ c \in Live
    /\ com.n < MaxCalls
    /\ LET s == send_cmd(cmd, line)
           o == IF s.out.exc = "none" THEN parsed ELSE s.out
       IN  /\ com' = [n |-> com.n + Len(s.requests)]
           /\ result' = Outcome(op, c, args, TRUE, Some(cmd), s.requests,
                                Some(line), <<>>, o)
    /\ passed' = passed + 1
    /\ UNCHANGED line

\* A command method whose validation helper raises
Rejected(c, op, args) ==
    /\ c \in Live
    /\ result' = Outcome(op, c, args, FALSE, None, <<>>, None, <<>>,
                         Raises("ValidationError", None, NoMsg))
    /\ UNCHANGED <<com, passed, line>>

\* ans[-1]
LastChar(ans) == ans[Len(ans)]

\* 'Version: %s' % '.'.join(ans[2:].split(','))
VersionOf(ans) ==
    Returns([label |-> "Version: ", text |-> CommasToDots(From(ans, 2))])

\* int(text)
IntOf(text) ==
    IF IsInt(text) THEN Returns(IntVal(text)) ELSE Raises("ValueError", None, NoMsg)

\* float(ans.split(',')[1])
ResetValueOf(ans) ==
    LET parts == Split2(ans) IN
    IF Len(parts) < 2 THEN Raises("IndexError", None, NoMsg)
    ELSE IF IsFloat(parts[2]) THEN Returns(FloatVal(parts[2]))
    ELSE Raises("ValueError", None, NoMsg)

\* int(ans[-1])
LastDigitOf(ans) ==
    IF Len(ans) = 0 THEN Raises("IndexError", None, NoMsg) ELSE IntOf(<<LastChar(ans)>>)

\* str(ans[-1])
LastCharOf(ans) ==
    IF Len(ans) = 0 THEN Raises("IndexError", None, NoMsg) ELSE Returns(<<LastChar(ans)>>)

get_version(c) ==
    /\ Command(c, "get_version", <<>>, <<"G", "I", "V">>, VersionOf(line))
    /\ UNCHANGED <<axes, ctrls>>

get_nchannels(c) ==
    /\ Command(c, "get_nchannels", <<>>, <<"G", "N", "C">>, IntOf(From(line, 1)))
    /\ UNCHANGED <<axes, ctrls>>

get_id(c) ==
    /\ Command(c, "get_id", <<>>, <<"G", "S", "I">>, Returns(line))
    /\ UNCHANGED <<axes, ctrls>>

get_communication_mode(c) ==
    /\ IsMCS(c)
    /\ Command(c, "get_communication_mode", <<>>, <<"G", "C", "M">>, LastDigitOf(line))
    /\ UNCHANGED <<axes, ctrls>>

set_communication_mode(c, mode) ==
    /\ IsMCS(c)
    /\ Command(c, "set_communication_mode", <<mode>>, <<"S", "C", "M">> \o Dec(mode),
               Returns("None"))
    /\ UNCHANGED <<axes, ctrls>>

\* reset that also empties the controller's list
reset_clearing(c) ==
    /\ IsMCS(c)
    /\ Command(c, "reset", <<>>, <<"R">>, ResetValueOf(line))
    /\ ctrls' = [ctrls EXCEPT ![c].list = <<>>]
    /\ UNCHANGED axes

reset(c) ==
    /\ IsMCS(c)
    /\ Command(c, "reset", <<>>, <<"R">>, ResetValueOf(line))
    /\ UNCHANGED <<axes, ctrls>>

set_hcm_enabled(c, mode) ==
    /\ IsMCS(c)
    /\ Command(c, "set_hcm_enabled", <<mode>>, <<"S", "H", "E">> \o Dec(mode),
               Returns("None"))
    /\ UNCHANGED <<axes, ctrls>>

get_sensor_enabled(c) ==
    /\ IsMCS(c)
    /\ Command(c, "get_sensor_enabled", <<>>, <<"G", "S", "E">>, LastCharOf(line))
    /\ UNCHANGED <<axes, ctrls>>

set_sensor_enabled(c, enabled) ==
    /\ IsMCS(c)
    /\ Command(c, "set_sensor_enabled", <<enabled>>, <<"S", "S", "E">> \o Dec(enabled),
               Returns("None"))
    /\ UNCHANGED <<axes, ctrls>>

\* trigger_command ignoring the outcome of the range check
trigger_command_unchecked(c, trigger_idx) ==
    /\ IsMCS(c)
    /\ Command(c, "trigger_command", <<trigger_idx>>,
               <<"T", "C">> \o Dec(trigger_idx + TRIGGER_INDEX_0), Returns("None"))
    /\ UNCHANGED <<axes, ctrls>>

\* trigger_command sending the bare index
trigger_command_no_offset(c, trigger_idx) ==
    /\ IsMCS(c)
    /\ IF is_trigger_in_range(trigger_idx)
       THEN Command(c, "trigger_command", <<trigger_idx>>,
                    <<"T", "C">> \o Dec(trigger_idx), Returns("None"))
       ELSE Rejected(c, "trigger_command", <<trigger_idx>>)
    /\ UNCHANGED <<axes, ctrls>>

\* trigger_idx is an integer, so int(trigger_idx) is trigger_idx
trigger_command(c, trigger_idx) ==
    /\ IsMCS(c)
    /\ IF is_trigger_in_range(trigger_idx)
       THEN Command(c, "trigger_command", <<trigger_idx>>,
                    <<"T", "C">> \o Dec(trigger_idx + TRIGGER_INDEX_0), Returns("None"))
       ELSE Rejected(c, "trigger_command", <<trigger_idx>>)
    /\ UNCHANGED <<axes, ctrls>>

configure_baudrate(c, baudrate) ==
    /\ IsMCS(c)
    /\ IF is_baudrate_in_range(baudrate)
       THEN Command(c, "configure_baudrate", <<baudrate>>, <<"B", "R">> \o Dec(baudrate),
                    IntOf(From(line, 2)))
       ELSE Rejected(c, "configure_baudrate", <<baudrate>>)
    /\ UNCHANGED <<axes, ctrls>>

keep_alive(c, delay) ==
    /\ IsMCS(c)
    /\ Command(c, "keep_alive", <<delay>>, <<"K">> \o Dec(delay), Returns("None"))
    /\ UNCHANGED <<axes, ctrls>>

\* the caller uses the dispatcher directly
call_send_cmd(c, cmd) ==
    /\ Command(c, "send_cmd", <<>>, cmd, Returns(line))
    /\ UNCHANGED <<axes, ctrls>>

\* the device's next answer changes
DeviceReply ==
    /\ line' \in SampleReplies
    /\ UNCHANGED <<axes, ctrls, com, passed, result>>

----------------------------------------------------------------------------
(* Inputs and specifications.                                              *)

CommandOps ==
    {"get_version", "get_nchannels", "get_id", "get_communication_mode",
     "set_communication_mode", "reset", "set_hcm_enabled", "get_sensor_enabled",
     "set_sensor_enabled", "trigger_command", "configure_baudrate", "keep_alive"}

Modes == 0..MaxArg

Delays == 0..MaxArg

TriggerInputs == (0 - IdxMargin)..(TRIGGER_MAX + IdxMargin)

BaudInputs == BAUDRATES \cup {0, 300, 9601, 1000000}

\* the trigger indices tried where the commands are interleaved
SampleIdx == {0 - 1, 0, 5, TRIGGER_MAX, TRIGGER_MAX + 1}

DirectCmds == {<<"G", "S", "I">>, <<"X">>}

NoCall == Outcome("", 0, <<>>, TRUE, None, <<>>, None, <<>>, Returns("None"))

\* before any controller exists
InitCtor ==
    /\ axes = Fresh
    /\ ctrls = <<>>
    /\ com = [n |-> 0]
    /\ passed = 0
    /\ result = NoCall
    /\ line = ErrorFrame(0)

\* after a controller of class kind was constructed over all the axes (the
\* constructors of the SDC and MCS classes only call the base constructor)
Constructed(kind, lines) ==
    LET input == AllAxes
        r     == BaseInit(Fresh, input, 1)
    IN  /\ axes = r.axes
        /\ ctrls = <<[kind |-> kind, alive |-> TRUE, list |-> r.list]>>
        /\ com = [n |-> 0]
        /\ passed = 0
        /\ result = Outcome("__init__", 1, input, TRUE, None, <<>>, None, r.list,
                            Returns("self"))
        /\ line \in lines

Init == \E kind \in Kinds : Constructed(kind, SampleReplies)

InitValidate == Constructed("MCS", SampleReplies)

InitDispatch == Constructed("Base", ReplySet)

Next ==
    \/ \E c \in 1..Len(ctrls) : get_version(c)
    \/ \E c \in 1..Len(ctrls) : get_nchannels(c)
    \/ \E c \in 1..Len(ctrls) : get_id(c)
    \/ \E c \in 1..Len(ctrls) : get_communication_mode(c)
    \/ \E c \in 1..Len(ctrls), mode \in Modes : set_communication_mode(c, mode)
    \/ \E c \in 1..Len(ctrls) : reset(c)
    \/ \E c \in 1..Len(ctrls), mode \in Modes : set_hcm_enabled(c, mode)
    \/ \E c \in 1..Len(ctrls) : get_sensor_enabled(c)
    \/ \E c \in 1..Len(ctrls), enabled \in Modes : set_sensor_enabled(c, enabled)
    \/ \E c \in 1..Len(ctrls), idx \in SampleIdx : trigger_command(c, idx)
    \/ \E c \in 1..Len(ctrls), rate \in BaudInputs : configure_baudrate(c, rate)
    \/ \E c \in 1..Len(ctrls), delay \in Delays : keep_alive(c, delay)
    \/ \E c \in 1..Len(ctrls), cmd \in DirectCmds : call_send_cmd(c, cmd)
    \/ DeviceReply

NextCtor == BaseController \/ Destroy

NextDispatch == \E c \in 1..Len(ctrls), cmd \in DirectCmds : call_send_cmd(c, cmd)

\* the commands with a validated parameter, over every input
NextValidate ==
    \/ \E c \in 1..Len(ctrls), idx \in TriggerInputs : trigger_command(c, idx)
    \/ \E c \in 1..Len(ctrls), rate \in BaudInputs : configure_baudrate(c, rate)

Spec == Init /\ [][Next]_vars

SpecCtor == InitCtor /\ [][NextCtor]_vars

SpecValidate == InitValidate /\ [][NextValidate]_vars

SpecDispatch == InitDispatch /\ [][NextDispatch]_vars

----------------------------------------------------------------------------
(* Properties of the dispatcher (checked under SpecDispatch).              *)

\* the last call was send_cmd and the transport answered with at least two
\* characters
Dispatched == result.op = "send_cmd" /\ Len(result.reply[1]) >= 2

\* first character the error marker, second not the sentinel
Flagged(r) == r[1] = "E" /\ r[2] # "S"

\* the text after the last comma of r, where r has a comma
TrailingField(r) ==
    LET k == CHOOSE i \in 1..Len(r) : r[i] = "," /\ \A j \in (i + 1)..Len(r) : r[j] # ","
    IN  [i \in 1..(Len(r) - k) |-> r[k + i]]

HasComma(r) == \E i \in 1..Len(r) : r[i] = ","

\* r ends in a comma-delimited field that is the integer c
TrailingCodeIs(r, c) ==
    HasComma(r) /\ IsInt(TrailingField(r)) /\ IntVal(TrailingField(r)) = c

\* r ends in a comma-delimited field that is a non-zero integer
TrailingCodeNonZero(r) ==
    HasComma(r) /\ IsInt(TrailingField(r)) /\ IntVal(TrailingField(r)) # 0

\* C1 as stated: for a reply of at least two characters send_cmd fails if
\* and only if the reply starts with 'E', its second character is not 'S'
\* and the integer in its last comma-delimited field is non-zero; otherwise
\* it returns the reply unchanged.
C1_FailsIffNonZeroCode ==
    Dispatched =>
        LET r == result.reply[1] IN
        /\ (result.exc # "none") <=> (Flagged(r) /\ TrailingCodeNonZero(r))
        /\ result.exc = "none" => result.ret = Some(r)

\* C1 amended: for a reply of at least two characters send_cmd returns, and
\* returns the reply unchanged, if and only if the reply does not start with
\* 'E', or its second character is 'S', or the text after its last comma is
\* an integer equal to 0; in every other case (a non-zero code, no comma, or
\* a trailing field that is no integer) it fails.
C1_ReturnsIffNoErrorCode ==
    Dispatched =>
        LET r == result.reply[1] IN
        /\ (result.exc = "none") <=> (~Flagged(r) \/ TrailingCodeIs(r, 0))
        /\ result.exc = "none" => result.ret = Some(r)

\* an error frame without a comma failed
C1_Witness ==
    /\ Dispatched
    /\ result.reply = Some(<<"E", "0">>)
    /\ result.exc = "IndexError"

\* C2: an error frame whose trailing code is non-zero and in the error-code
\* table makes send_cmd raise RuntimeError('Error <code>: <text>') with that
\* code and the table's text for that code; "E0,142" gives 142 and
\* "End Stop Reached Error".
C2_KnownCodeRaises ==
    /\ Dispatched =>
          LET r == result.reply[1] IN
          \A c \in DOMAIN ERROR_CODES \ {0} :
              (Flagged(r) /\ TrailingCodeIs(r, c)) =>
                  /\ result.exc = "RuntimeError"
                  /\ IsInt(result.msg.num) /\ IntVal(result.msg.num) = c
                  /\ result.msg.text = ERROR_CODES[c]
                  /\ result.ret = None
    /\ (Dispatched /\ result.reply = Some(<<"E", "0", ",", "1", "4", "2">>)) =>
          /\ result.exc = "RuntimeError"
          /\ result.msg = [num |-> <<"1", "4", "2">>, text |-> "End Stop Reached Error"]

C2_Witness ==
    /\ Dispatched
    /\ result.reply = Some(<<"E", "0", ",", "1", "4", "2">>)
    /\ result.exc = "RuntimeError"

\* C3: an error frame whose trailing code is non-zero and absent from the
\* error-code table makes send_cmd fail with an exception other than the
\* RuntimeError of known codes (the KeyError of the table lookup) that
\* carries the raw code; the reply is not returned and no text is made up.
C3_UnknownCodeRaises ==
    Dispatched =>
        LET r == result.reply[1] IN
        (Flagged(r) /\ TrailingCodeNonZero(r)
            /\ IntVal(TrailingField(r)) \notin DOMAIN ERROR_CODES) =>
                /\ result.exc = "KeyError"
                /\ result.key = Some(IntVal(TrailingField(r)))
                /\ result.ret = None
                /\ result.msg = NoMsg

C3_Witness ==
    /\ Dispatched
    /\ result.reply = Some(<<"E", "0", ",", "9", "9">>)
    /\ result.exc = "KeyError"
    /\ result.key = Some(99)

----------------------------------------------------------------------------
(* Properties of construction (checked under SpecCtor).                    *)

\* C4 as stated: after constructing a controller from a non-empty sequence
\* of axes, its list is the input in input order, the ids read in list order
\* are 0..N-1 and every back-reference resolves to the controller.
C4_IdsFollowInput ==
    (result.op = "__init__" /\ result.exc = "none" /\ Len(result.args) >= 1) =>
        LET c == result.ctrl IN
        /\ ctrls[c].list = result.args
        /\ \A i \in 1..Len(ctrls[c].list) :
              /\ axes[ctrls[c].list[i]].id = Some(i - 1)
              /\ Parent(ctrls[c].list[i]) = Some(c)

\* C5: a constructor given a sequence with an element that is no axis, at
\* any position, raises ValueError, holds no element, and changes no id, no
\* back-reference and no controller.
C5_NoPartialState ==
    [][(result'.op = "__init__" /\ \E i \in 1..Len(result'.args) : ~IsAxis(result'.args[i]))
          => /\ result'.exc = "ValueError"
             /\ result'.list = <<>>
             /\ axes' = axes
             /\ ctrls' = ctrls]_vars

\* a construction failed on its last element, after a valid first one
C5_Witness ==
    /\ result.op = "__init__"
    /\ result.exc = "ValueError"
    /\ Len(result.args) >= 2
    /\ IsAxis(result.args[1])
    /\ ~IsAxis(result.args[Len(result.args)])

\* C9 as stated: after any constructions from a shared pool of axes, every
\* axis in a live controller's list has the id of its position and a
\* back-reference to that controller, and no axis is in two live
\* controllers' lists.
C9_SoleOwner ==
    /\ \A c \in Live : \A i \in 1..Len(ctrls[c].list) :
          /\ axes[ctrls[c].list[i]].id = Some(i - 1)
          /\ Parent(ctrls[c].list[i]) = Some(c)
    /\ \A c \in Live, d \in Live : \A i \in 1..Len(ctrls[c].list), j \in 1..Len(ctrls[d].list) :
          ctrls[c].list[i] = ctrls[d].list[j] => c = d

----------------------------------------------------------------------------
(* Properties of parameter validation (checked under SpecValidate).        *)

\* C6: trigger_command with an index outside [0,255] and configure_baudrate
\* with a rate outside the accepted set raise the validation error and make
\* no request to the transport.
C6_RejectedBeforeSend ==
    [][(\/ result'.op = "trigger_command" /\ result'.args[1] \notin 0..255
        \/ result'.op = "configure_baudrate" /\ result'.args[1] \notin BAUDRATES)
          => /\ result'.exc = "ValidationError"
             /\ result'.requests = <<>>
             /\ com' = com]_vars

\* index 256 was rejected after the transport had already served a request
C6_Witness ==
    /\ result.op = "trigger_command"
    /\ result.args = <<256>>
    /\ result.exc = "ValidationError"
    /\ com.n >= 1

\* C7: trigger_command(idx) with idx in [0,255] sends exactly "TC" followed
\* by idx + 1792; every command trigger_command sends carries a code in
\* [1792, 2047], and no other index gives the same command.
C7_TriggerCode ==
    result.op = "trigger_command" =>
        LET idx == result.args[1] IN
        /\ idx \in 0..255 =>
              /\ result.requests = << <<"T", "C">> \o Dec(idx + 1792) >>
              /\ result.cmd = Some(<<"T", "C">> \o Dec(idx + 1792))
        /\ \A k \in 1..Len(result.requests) :
              LET q == result.requests[k] IN
              /\ Len(q) > 2 /\ q[1] = "T" /\ q[2] = "C"
              /\ IsInt(From(q, 2))
              /\ IntVal(From(q, 2)) \in 1792..2047
              /\ IntVal(From(q, 2)) - 1792 = idx
              /\ \A j \in 0..255 : j # idx => q # <<"T", "C">> \o Dec(j + 1792)

C7_Witness ==
    /\ result.op = "trigger_command"
    /\ result.args = <<5>>
    /\ result.requests = << <<"T", "C", "1", "7", "9", "7">> >>

----------------------------------------------------------------------------
(* Properties of the commands (checked under Spec).                        *)

\* the command string of the wire protocol for each operation
WireCommand(op, args) ==
    CASE op = "get_version" -> <<"G", "I", "V">>
      [] op = "get_nchannels" -> <<"G", "N", "C">>
      [] op = "get_id" -> <<"G", "S", "I">>
      [] op = "get_communication_mode" -> <<"G", "C", "M">>
      [] op = "set_communication_mode" -> <<"S", "C", "M">> \o Dec(args[1])
      [] op = "reset" -> <<"R">>
      [] op = "set_hcm_enabled" -> <<"S", "H", "E">> \o Dec(args[1])
      [] op = "get_sensor_enabled" -> <<"G", "S", "E">>
      [] op = "set_sensor_enabled" -> <<"S", "S", "E">> \o Dec(args[1])
      [] op = "trigger_command" -> <<"T", "C">> \o Dec(args[1] + 1792)
      [] op = "configure_baudrate" -> <<"B", "R">> \o Dec(args[1])
      [] op = "keep_alive" -> <<"K">> \o Dec(args[1])

\* C8: a command that passes validation makes exactly one request to the
\* transport, carrying the formatted command unchanged, whether it then
\* returns or fails; a rejected one makes none; so the transport has served
\* as many requests as calls passed validation.
C8_OneRequestPerCall ==
    /\ com.n = passed
    /\ result.op \in CommandOps =>
          IF result.valid
          THEN /\ result.requests = <<WireCommand(result.op, result.args)>>
               /\ result.cmd = Some(WireCommand(result.op, result.args))
          ELSE result.requests = <<>>
    /\ result.op = "send_cmd" => result.requests = <<result.cmd[1]>>

\* two calls were made and the second failed on a known error code
C8_Witness ==
    /\ result.op \in CommandOps
    /\ result.exc = "RuntimeError"
    /\ com.n = 2
    /\ passed = 2

\* C10: whatever commands are called, and whether they return or fail, the
\* controller's list and the ids and back-references of its axes stay as
\* the constructor left them.
C10_AxesFixed ==
    /\ Len(ctrls) = 1
    /\ ctrls[1].alive
    /\ ctrls[1].list = AllAxes
    /\ \A i \in 1..Len(AllAxes) :
          axes[AllAxes[i]].id = Some(i - 1) /\ Parent(AllAxes[i]) = Some(1)

\* a reset failed on a known error code, after an earlier call
C10_Witness ==
    /\ result.op = "reset"
    /\ result.exc = "RuntimeError"
    /\ com.n = 2
    /\ Len(ctrls[1].list) >= 2

====
